---- MODULE Spec2Model ----
(***************************************************************************)
(* PheWAS pipeline of the PIC-SURE example notebooks: cohort filter,       *)
(* univariate screener, Bonferroni corrector, Manhattan plot.  Four        *)
(* variants are modelled:                                                  *)
(*   "LLR"    src/PheWAS_py.ipynb (logistic regression, LLR p-value)       *)
(*   "MWF"    src/unnamed/part_000 (Mann-Whitney U + Fisher exact)         *)
(*   "MWF101" src/py_PICSURE-API_101_PheWAS_example.ipynb (python part)    *)
(*   "R"      src/py_PICSURE-API_101_PheWAS_example.ipynb (Rmd part)       *)
(***************************************************************************)
EXTENDS Integers, Sequences, FiniteSets, TLC

VARIABLES variant, pc, facts, variablesDict, categorical_varnames,
          continuous_varnames, facts_dummies, idx, dic_mannwhitneyu,
          dic_fisher, dic_pvalues, tested, adjusted_alpha, fetched, screened,
          dependent_var_name, order, previous, library, raised,
          df_results, plot, printed

vars == <<variant, pc, facts, variablesDict, categorical_varnames,
          continuous_varnames, facts_dummies, idx, dic_mannwhitneyu,
          dic_fisher, dic_pvalues, tested, adjusted_alpha, fetched, screened,
          dependent_var_name, order, previous, library, raised,
          df_results, plot, printed>>

\* what a run of the screening cells does not assign: the notebook, the name
\* of the dependent variable, the order of the dictionary and the results a
\* former run of the cells left
setup == <<variant, dependent_var_name, order, previous>>

\* what the cells print and draw
report == <<df_results, plot, printed>>

----------------------------------------------------------------------------
(* Bounds of the model *)

\* number of subjects (rows) returned by the query
NSubj == 3

Subjects == 1..NSubj

Variants == {"LLR", "MWF", "MWF101", "R"}

----------------------------------------------------------------------------
(* Values *)

\* pandas / numpy missing value of a cell (R: NA)
NaN == "NaN"

\* values of the grouping trait column seen in the data
TraitValues == <<"Case", "Control", "Other", NaN>>
\* values of the continuous column
ContValues == <<"1", "2", NaN>>
\* values (levels) of the categorical column
CatValues == <<"A", "B", "C", NaN>>

\* the order pandas sorts cell values in
ValueOrder == <<"0", "1", "2", "A", "B", "C", "Case", "Control", "Other">>

\* sorted(S) without the missing value
SortedValues(S) == SelectSeq(ValueOrder, LAMBDA v : v \in S)

\* the two retained values of the grouping trait
KeptValues == {"Case", "Control"}

\* A p-value is a rational <<num, den>>; den = 0 is the float NaN (0/0).
NaNp == <<0, 0>>
isna(p) == p[2] = 0
Div(p, n) == IF isna(p) \/ n = 0 THEN NaNp ELSE <<p[1], p[2] * n>>
Lt(p, q) == p[1] * q[2] < q[1] * p[2]
Eq(p, q) == p[1] * q[2] = q[1] * p[2]
\* 0.05
alpha == <<1, 20>>

\* p-values a library test may return for a table it accepts: 0.0 (underflow),
\* 0.001, 0.0166665 (just below 0.05 / 3), 0.04 and 1.0
PValues == {<<0, 1>>, <<1, 1000>>, <<2000, 120001>>, <<1, 25>>, <<1, 1>>}

\* -np.log10(p): NaN for NaN, +inf for 0.0, finite otherwise
neglog10(p) ==
    IF isna(p) THEN [kind |-> "nan", of |-> NaNp]
    ELSE IF p[1] = 0 THEN [kind |-> "inf", of |-> p]
    ELSE [kind |-> "fin", of |-> p]

----------------------------------------------------------------------------
(* The variable dictionary and the data returned by the query *)

\* the row of the dictionary of the grouping trait ("Affection status")
StatusVar == "status"

\* the values of the MultiIndex of variablesDict, in the order of sort_index:
\* the levels before the level of the group (level_0 in the 101 notebook,
\* level_0 and level_1 in the two others) and the level of the group
Paths == << <<"A", "g1">>, <<"A", "g2">>, <<"B", "g1">> >>

\* varName, categorical flag and index of the dictionary rows, in dictionary
\* order
Dictionary ==
    << [varName |-> "status", categorical |-> TRUE,  index |-> <<"A", "g1">>],
       [varName |-> "x",      categorical |-> FALSE, index |-> <<"A", "g2">>],
       [varName |-> "y",      categorical |-> TRUE,  index |-> <<"A", "g1">>] >>

VarNames == {Dictionary[k].varName : k \in 1..Len(Dictionary)}

Range(s) == {s[k] : k \in 1..Len(s)}

IndexOf(s, v) == CHOOSE k \in 1..Len(s) : s[k] = v

\* rows the query may return; a subject outside the two groups is not read
\* by any test, so one non-missing pattern of its other cells is enumerated
Rows ==
    {r \in [status : Range(TraitValues), x : Range(ContValues), y : Range(CatValues)] :
        r.status \notin KeptValues => (r.x = "1" /\ r.y = "A")}

RowCode(r) ==
    (IndexOf(TraitValues, r.status) * 16) + (IndexOf(ContValues, r.x) * 4)
        + IndexOf(CatValues, r.y)

\* a dictionary row before any column is joined to it
DictRow(k) ==
    [varName |-> Dictionary[k].varName, categorical |-> Dictionary[k].categorical,
     index |-> Dictionary[k].index, group |-> NaN,
     dummies_varName |-> NaN, pvalues |-> NaNp, p_adj |-> NaNp,
     log_p |-> neglog10(NaNp)]

EmptyDic == [k \in {} |-> NaNp]

\* outcome of a library call: an exception, or a returned p-value
Raise == [raises |-> TRUE, p |-> NaNp]
Return(p) == [raises |-> FALSE, p |-> p]

\* an exception of class error raised in cell "cell" while item "at" was
\* handled; kind: what went wrong ("empty_join", "degenerate", "fit": the
\* failures a variable may have; "other": anything else)
Exception(error, kind, cell, at) ==
    [error |-> error, kind |-> kind, cell |-> cell, at |-> at]

\* no figure has been drawn
NoPlot ==
    [drawn |-> FALSE, points |-> {}, labelled |-> {},
     hline |-> [kind |-> "nan", of |-> NaNp]]

\* the state after the query, the dependent variable being one of traits
InitWith(traits) ==
    /\ variant \in Variants
    /\ pc = "select"
    /\ facts \in [Subjects -> Rows]
    \* the tests do not depend on the order of the rows: one order per multiset
    /\ \A s, t \in Subjects : s < t => RowCode(facts[s]) <= RowCode(facts[t])
    /\ variablesDict = [k \in 1..Len(Dictionary) |-> DictRow(k)]
    /\ categorical_varnames = <<>>
    /\ continuous_varnames = <<>>
    /\ facts_dummies = [columns |-> {}, data |-> [s \in {} |-> [c \in {} |-> NaN]]]
    /\ idx = 1
    /\ dic_mannwhitneyu = EmptyDic
    /\ dic_fisher = EmptyDic
    /\ dic_pvalues = EmptyDic
    /\ tested = [v \in {} |-> [test |-> "none", rows |-> {}]]
    /\ adjusted_alpha = NaNp
    \* history: the frame as the query returned it, and the items the loops
    \* of the Screener have handled
    /\ fetched = facts
    /\ screened = {}
    /\ dependent_var_name \in traits
    /\ order = "listed"
    /\ previous = [ran |-> FALSE, results |-> EmptyDic]
    /\ library = [k \in {} |-> Raise]
    /\ raised = {}
    /\ df_results = <<>>
    /\ plot = NoPlot
    /\ printed = <<>>

\* the dependent variable: dictionary row named "Affection status"
Init == InitWith({StatusVar})

----------------------------------------------------------------------------
(* Data management *)

\* list.remove(x): removes the first occurrence
Remove(s, v) == SelectSeq(s, LAMBDA e : e # v)

\* a fault: the mask is not applied
VarNamesAll(cat) == [k \in 1..Len(Dictionary) |-> Dictionary[k].varName]

\* variablesDict.loc[mask, "varName"].tolist()
VarNamesWhere(cat) ==
    LET rows == SelectSeq(Dictionary, LAMBDA r : r.categorical = cat)
    IN  [k \in 1..Len(rows) |-> rows[k].varName]

\* cells "Selecting variables regarding their types" and "Selecting the
\* dependent variable to study"
SelectVariables ==
    /\ pc = "select"
    /\ continuous_varnames' = VarNamesWhere(FALSE)
    /\ IF dependent_var_name \in Range(VarNamesWhere(TRUE))
       THEN /\ categorical_varnames' = Remove(VarNamesWhere(TRUE), dependent_var_name)
            /\ pc' = "filter"
            /\ UNCHANGED raised
       ELSE IF variant = "R"
       THEN \* x[-which(x == name)] with no match is x[-integer(0)]: no element
            /\ categorical_varnames' = <<>>
            /\ pc' = "filter"
            /\ UNCHANGED raised
       ELSE \* list.remove(x): ValueError, x not in list
            /\ categorical_varnames' = VarNamesWhere(TRUE)
            /\ pc' = "aborted"
            /\ raised' = raised \cup
                  {Exception("ValueError", "other", "select", dependent_var_name)}
    /\ UNCHANGED <<setup, library, report, facts, variablesDict, facts_dummies, idx,
                   dic_mannwhitneyu, dic_fisher, dic_pvalues, tested,
                   adjusted_alpha, fetched, screened>>

\* a faulty filter: only the subjects without a value are dropped
mask_notna(f) == {s \in DOMAIN f : f[s][dependent_var_name] # NaN}

\* facts[dependent_var_name].isin(["Case", "Control"])
mask_dependent_var_name(f) ==
    {s \in DOMAIN f : f[s][dependent_var_name] \in KeptValues}

\* facts.loc[mask, :]
Loc(f, mask) == [s \in mask |-> f[s]]

\* a fault: the counts of "Case" and "Control", observed or not
value_counts_categories(f, col) ==
    LET n(v) == Cardinality({s \in DOMAIN f : f[s][col] = v})
    IN  IF n("Control") > n("Case") THEN <<n("Control"), n("Case")>>
        ELSE <<n("Case"), n("Control")>>

\* facts[dependent_var_name].value_counts().tolist(): the counts of the
\* observed values, the most frequent first (ties: in sorted order)
value_counts(f, col) ==
    LET vs == SortedValues({f[s][col] : s \in DOMAIN f})
        n(v) == Cardinality({s \in DOMAIN f : f[s][col] = v})
    IN  IF Len(vs) = 2 /\ n(vs[2]) > n(vs[1])
        THEN <<n(vs[2]), n(vs[1])>>
        ELSE [k \in 1..Len(vs) |-> n(vs[k])]

\* count_case_control <- table(facts[[dependent_varname]]);
\* count_case_control[g]: the number of subjects of group g, NA (no number)
\* when the group is absent
table_count(f, col, g) ==
    LET n == Cardinality({s \in DOMAIN f : f[s][col] = g})
    IN  IF n = 0 THEN <<>> ELSE <<n>>

\* the numbers shown after "Control:" and after "Case:" by
\* print("Control: {0} individuals\nCase: {1} individuals".format(*counts))
\* (R: sprintf(..., count_case_control["Control"], count_case_control["Case"]))
group_sizes(f, col) ==
    IF variant = "R"
    THEN <<table_count(f, col, "Control"), table_count(f, col, "Case")>>
    ELSE LET counts == value_counts(f, col)
         IN  << <<counts[1]>>, <<counts[2]>> >>

\* cell "facts = facts.loc[mask_dependent_var_name,:]" with the print of the
\* two group sizes: "{0} ... {1}".format(*counts) raises IndexError when
\* fewer than two values are left; R prints NA for a group that is absent
CohortFilter ==
    /\ pc = "filter"
    /\ facts' = Loc(facts, mask_dependent_var_name(facts))
    /\ IF variant # "R" /\ Len(value_counts(facts', dependent_var_name)) < 2
       THEN /\ pc' = "aborted"
            /\ raised' = raised \cup
                  {Exception("IndexError", "other", "filter", dependent_var_name)}
            /\ UNCHANGED printed
       ELSE /\ pc' = IF variant \in {"MWF", "MWF101"} THEN "dummies" ELSE "screen"
            /\ printed' = group_sizes(facts', dependent_var_name)
            /\ UNCHANGED raised
    /\ UNCHANGED <<setup, library, df_results, plot, variablesDict, categorical_varnames,
                   continuous_varnames, facts_dummies, idx, dic_mannwhitneyu,
                   dic_fisher, dic_pvalues, tested, adjusted_alpha, fetched, screened>>

----------------------------------------------------------------------------
(* Indicator ("dummy") columns *)

\* the observed levels of column v, in sorted order (pandas sorts the levels)
Levels(f, v) == SortedValues({f[s][v] : s \in DOMAIN f})

\* name of the indicator column of level l of column v
DummyName(v, l) == v \o "_" \o l

\* the indicator columns pd.get_dummies makes of column v
DummyColumns(f, v, drop_first) ==
    LET ls   == Levels(f, v)
        kept == IF drop_first /\ Len(ls) > 0 THEN Tail(ls) ELSE ls
    IN  [k \in 1..Len(kept) |-> [name |-> DummyName(v, kept[k]), var |-> v, level |-> kept[k]]]

\* pd.get_dummies(f, columns=columns, drop_first=drop_first): the columns not
\* listed are kept; a missing value gets 0 in every indicator column
get_dummies(f, cols, columns, drop_first) ==
    LET specs == UNION {Range(DummyColumns(f, v, drop_first)) : v \in Range(columns)}
        plain == cols \ Range(columns)
        names == plain \cup {d.name : d \in specs}
    IN  [columns |-> names,
         data |-> [s \in DOMAIN f |->
            [c \in names |->
                IF c \in plain THEN f[s][c]
                ELSE LET d == CHOOSE d \in specs : d.name = c
                     IN  IF f[s][d.var] = d.level THEN "1" ELSE "0"]]]

RECURSIVE Flatten(_)
Flatten(ss) == IF Len(ss) = 0 THEN <<>> ELSE Head(ss) \o Flatten(Tail(ss))

\* python_lib.utils.match_dummies_to_varNames: the pairs (varName,
\* dummies_varName); a column left unchanged is matched to itself
match_dummies_to_varNames(f, drop_first) ==
    [v \in VarNames |->
        IF v \in Range(categorical_varnames)
        THEN LET ds == DummyColumns(f, v, drop_first)
             IN  [k \in 1..Len(ds) |-> ds[k].name]
        ELSE <<v>>]

\* python_lib.utils.joining_variablesDict_onCol on "varName": a left join,
\* one output row per match, dummies_varName missing when there is none
joining_dummies(dict, matching) ==
    Flatten([k \in 1..Len(dict) |->
        LET m == matching[dict[k].varName]
        IN  IF Len(m) = 0 THEN <<dict[k]>>
            ELSE [j \in 1..Len(m) |-> [dict[k] EXCEPT !.dummies_varName = m[j]]]])

\* cells "facts_dummies = pd.get_dummies(...)" and "matching_dummies_varNames"
MakeDummies ==
    /\ pc = "dummies"
    /\ facts_dummies' = get_dummies(facts, VarNames, categorical_varnames, TRUE)
    /\ variablesDict' = joining_dummies(variablesDict,
                                        match_dummies_to_varNames(facts, TRUE))
    /\ pc' = IF Len(continuous_varnames) > 0 THEN "mw" ELSE "fisher"
    /\ idx' = 1
    /\ UNCHANGED <<setup, library, raised, report, facts, categorical_varnames, continuous_varnames,
                   dic_mannwhitneyu, dic_fisher, dic_pvalues, tested,
                   adjusted_alpha, fetched, screened>>

----------------------------------------------------------------------------
(* Univariate Screener: helpers *)

\* dic[key] = value
Put(dic, key, value) ==
    [k \in DOMAIN dic \cup {key} |-> IF k = key THEN value ELSE dic[k]]

\* the lists of the loops follow the order of the rows of the dictionary;
\* "reversed": the same rows in the opposite order
Reverse(s) == [k \in 1..Len(s) |-> s[Len(s) + 1 - k]]
Ordered(s) == IF order = "reversed" THEN Reverse(s) ELSE s

\* a fault: a test whose outcome varies from one call to the next
Call_varying(key, outcomes) == outcomes

\* a test of scipy, statsmodels or R's glm is a function of its arguments: a
\* call made before on the same frame and variable has the same outcome
Call(key, outcomes) ==
    IF key \in DOMAIN library THEN {library[key]} ELSE outcomes

\* one pass of a for loop over a list of n items is over: next item, or the
\* cell that follows the loop
Advance(n, after) ==
    IF idx + 1 > n THEN pc' = after /\ idx' = 1
    ELSE pc' = pc /\ idx' = idx + 1

\* an exception leaves the cell: the notebook run stops there
Abort == pc' = "aborted" /\ idx' = idx

----------------------------------------------------------------------------
(* Quantitative variables: Mann-Whitney U test *)

\* facts_dummies.groupby(by): the observed keys, sorted
groupby(f, by) == SortedValues({f[s][by] : s \in DOMAIN f})

\* group[1].dropna() of grouped[var]: the subjects of group g with a value
GroupOf(f, by, g, var) == {s \in DOMAIN f : f[s][by] = g /\ f[s][var] # NaN}

\* stats.mannwhitneyu(group1, group2): with an empty sample scipy < 1.7
\* divides by sd = 0 and returns the p-value 0.0 (ValueError when all ranks
\* tie), scipy >= 1.7 raises ValueError; with all values identical scipy < 1.7
\* raises ValueError, scipy >= 1.7 returns 1.0
mannwhitneyu(f, var, group1, group2) ==
    LET values == {f[s][var] : s \in group1 \cup group2}
        n      == Cardinality(group1) + Cardinality(group2)
    IN  IF group1 = {} \/ group2 = {}
        THEN {Raise} \cup (IF n >= 2 /\ Cardinality(values) = 1 THEN {}
                           ELSE {Return(<<0, 1>>)})
        ELSE IF Cardinality(values) = 1 THEN {Raise, Return(<<1, 1>>)}
        ELSE {Return(p) : p \in PValues}

\* one pass of "for var in continuous_varnames"
MannWhitneyStep ==
    /\ pc = "mw"
    /\ LET var    == Ordered(continuous_varnames)[idx]
           groups == groupby(facts_dummies.data, dependent_var_name)
       IN  IF Len(groups) # 2
           THEN \* group1, group2 = [...]: ValueError outside the try
                /\ Abort
                /\ raised' = raised \cup {Exception("ValueError", "other", "mw", var)}
                /\ UNCHANGED <<dic_mannwhitneyu, tested, screened, library>>
           ELSE LET group1 == GroupOf(facts_dummies.data, dependent_var_name, groups[1], var)
                    group2 == GroupOf(facts_dummies.data, dependent_var_name, groups[2], var)
                IN  \E o \in Call(var, mannwhitneyu(facts_dummies.data, var, group1, group2)) :
                      /\ dic_mannwhitneyu' =
                            Put(dic_mannwhitneyu, var, IF o.raises THEN NaNp ELSE o.p)
                      /\ tested' = Put(tested, var,
                            [test |-> "mannwhitneyu", rows |-> group1 \cup group2])
                      /\ library' = Put(library, var, o)
                      /\ raised' = IF o.raises
                                    THEN raised \cup {Exception("ValueError",
                                            IF group1 \cup group2 = {} THEN "empty_join"
                                            ELSE "degenerate", "mw", var)}
                                    ELSE raised
                      /\ screened' = screened \cup {var}
                      /\ Advance(Len(continuous_varnames), "fisher")
    /\ UNCHANGED <<setup, report, facts, variablesDict, categorical_varnames,
                   continuous_varnames, facts_dummies, dic_fisher, dic_pvalues,
                   adjusted_alpha, fetched>>

----------------------------------------------------------------------------
(* Qualitative variables: Fisher exact test *)

\* length of the slice [:500] of the 101 notebook, scaled to the lists of the
\* model (at most two indicator columns per variable)
SliceLen == 1

Min(a, b) == IF a < b THEN a ELSE b
Max(a, b) == IF a > b THEN a ELSE b

\* variablesDict.loc[variablesDict["varName"].isin(categorical_varnames), :]
\*     ["dummies_varName"].values, sliced [:500] in the 101 notebook
dummy_categorical_varnames(dict) ==
    LET rows  == SelectSeq(dict, LAMBDA r : r.varName \in Range(categorical_varnames))
        names == [k \in 1..Len(rows) |-> rows[k].dummies_varName]
    IN  IF variant = "MWF101"
        THEN SubSeq(Ordered(names), 1, Min(Len(names), SliceLen))
        ELSE Ordered(names)

\* pd.crosstab(index, columns): counts of the pairs of values of two columns
\* over the rows where neither is missing
crosstab(f, row, col) ==
    LET both == {s \in DOMAIN f : f[s][row] # NaN /\ f[s][col] # NaN}
        rv   == SortedValues({f[s][row] : s \in both})
        cv   == SortedValues({f[s][col] : s \in both})
    IN  [rows  |-> both,
         shape |-> <<Len(rv), Len(cv)>>,
         count |-> [i \in 1..Len(rv) |-> [j \in 1..Len(cv) |->
                      Cardinality({s \in both : f[s][row] = rv[i] /\ f[s][col] = cv[j]})]]]

RECURSIVE Binomial(_, _)
Binomial(n, k) ==
    IF k < 0 \/ k > n THEN 0
    ELSE IF k = 0 THEN 1
    ELSE (Binomial(n - 1, k - 1) * n) \div k

\* a fault: the two-sided p-value as twice the total, without the cap at 1
fisher_exact_doubled(ct) ==
    LET a  == ct.count[1][1]
        r1 == ct.count[1][1] + ct.count[1][2]
        r2 == ct.count[2][1] + ct.count[2][2]
        c1 == ct.count[1][1] + ct.count[2][1]
        w(x) == Binomial(r1, x) * Binomial(r2, c1 - x)
        RECURSIVE Sum(_)
        Sum(x) == IF x < 0 THEN 0
                  ELSE (IF w(x) <= w(a) THEN w(x) ELSE 0) + Sum(x - 1)
    IN  <<2 * Sum(Min(r1, c1)), Binomial(r1 + r2, c1)>>

\* stats.fisher_exact(table)[1] of a 2x2 table: the two-sided p-value, the
\* total probability of the tables with the same margins that are at most as
\* probable as the observed one
fisher_exact(ct) ==
    LET a  == ct.count[1][1]
        r1 == ct.count[1][1] + ct.count[1][2]
        r2 == ct.count[2][1] + ct.count[2][2]
        c1 == ct.count[1][1] + ct.count[2][1]
        w(x) == Binomial(r1, x) * Binomial(r2, c1 - x)
        RECURSIVE Sum(_)
        Sum(x) == IF x < 0 THEN 0
                  ELSE (IF w(x) <= w(a) THEN w(x) ELSE 0) + Sum(x - 1)
    IN  <<Sum(Min(r1, c1)), Binomial(r1 + r2, c1)>>

\* one pass of "for var in tqdm(dummy_categorical_varnames)"
FisherStep ==
    /\ pc = "fisher"
    /\ LET list == dummy_categorical_varnames(variablesDict)
           var  == list[idx]
       IN  IF var = NaN \/ var \notin facts_dummies.columns
           THEN \* type(var) != str, or no such column: continue
                /\ Advance(Len(list), "correct")
                /\ screened' = screened \cup {var}
                /\ UNCHANGED <<dic_fisher, tested, raised>>
           ELSE LET ct == crosstab(facts_dummies.data, var, dependent_var_name)
                IN  IF ct.shape = <<1, 2>>
                    THEN /\ dic_fisher' = Put(dic_fisher, var, NaNp)
                         /\ Advance(Len(list), "correct")
                         /\ screened' = screened \cup {var}
                         /\ UNCHANGED <<tested, raised>>
                    ELSE IF ct.shape # <<2, 2>>
                    THEN \* fisher_exact: ValueError, the table is not 2x2
                         /\ Abort
                         /\ tested' = Put(tested, var,
                               [test |-> "fisher_exact", rows |-> ct.rows])
                         /\ raised' = raised \cup
                               {Exception("ValueError", "other", "fisher", var)}
                         /\ UNCHANGED <<dic_fisher, screened>>
                    ELSE /\ dic_fisher' = Put(dic_fisher, var, fisher_exact(ct))
                         /\ tested' = Put(tested, var,
                               [test |-> "fisher_exact", rows |-> ct.rows])
                         /\ screened' = screened \cup {var}
                         /\ Advance(Len(list), "correct")
                         /\ UNCHANGED raised
    /\ UNCHANGED <<setup, library, report, facts, variablesDict, categorical_varnames,
                   continuous_varnames, facts_dummies, dic_mannwhitneyu,
                   dic_pvalues, adjusted_alpha, fetched>>

\* "except AttributeError: print(End of loop tqdm AttributeError catched)": an
\* AttributeError raised by tqdm in a pass of the loop of the 101 notebook ends
\* the loop; the cell completes and the notebook goes on
TqdmAttributeError ==
    /\ pc = "fisher"
    /\ variant = "MWF101"
    /\ pc' = "correct"
    /\ idx' = 1
    /\ raised' = raised \cup
          {Exception("AttributeError", "other", "fisher",
                     dummy_categorical_varnames(variablesDict)[idx])}
    /\ UNCHANGED <<setup, library, report, facts, variablesDict, categorical_varnames,
                   continuous_varnames, facts_dummies, dic_mannwhitneyu,
                   dic_fisher, dic_pvalues, tested, adjusted_alpha, fetched, screened>>

----------------------------------------------------------------------------
(* Regression variants: one logistic regression per variable *)

\* a faulty list: the dependent variable is left in it
all_varNames ==
    IF variant = "R" THEN categorical_varnames \o continuous_varnames
    ELSE [k \in 1..Len(Dictionary) |-> Dictionary[k].varName]

\* variablesDict["varName"].tolist() without the dependent variable;
\* R: c(categorical_varnames, continuous_varnames)
independent_varNames ==
    IF variant = "R" THEN categorical_varnames \o continuous_varnames
    ELSE Remove([k \in 1..Len(Dictionary) |-> Dictionary[k].varName],
                dependent_var_name)

\* a fault: the rows with a missing value are dropped from facts itself
dropna_inplace(f, var) ==
    Loc(f, {s \in DOMAIN f : f[s][dependent_var_name] # NaN /\ f[s][var] # NaN})

\* facts after "matrix = facts.loc[:, [...]].dropna(how="any")" (R: na.omit of
\* a selection): the rows are dropped from the new frame, facts keeps its own
after_dropna(f, var) == f

\* simple_index_variablesDict.loc[var, "categorical"]
IsCategorical(var) ==
    \E k \in 1..Len(Dictionary) :
        Dictionary[k].varName = var /\ Dictionary[k].categorical

\* facts.loc[:, [dependent_var_name, var]].dropna(how="any"); R: na.omit
dropna(f, var) ==
    Loc(f, {s \in DOMAIN f : f[s][dependent_var_name] # NaN /\ f[s][var] # NaN})

\* a fault: every indicator column is kept
Regressors_all(matrix, var) ==
    IF IsCategorical(var)
    THEN LET ds == DummyColumns(matrix, var, FALSE)
         IN  [k \in 1..Len(ds) |-> ds[k].name]
    ELSE <<var>>

\* the regressors of the design matrix: the column itself, or the indicator
\* columns of pd.get_dummies(drop_first=False) without the last (.iloc[:, 0:-1])
Regressors(matrix, var) ==
    IF IsCategorical(var)
    THEN LET ds == DummyColumns(matrix, var, FALSE)
         IN  [k \in 1..(Len(ds) - 1) |-> ds[k].name]
    ELSE <<var>>

\* independent_var = matrix.drop(dependent_var_name, axis=1).assign(intercept = 1):
\* the columns of the design matrix
independent_var(matrix, var) == Regressors(matrix, var) \o <<"intercept">>

\* the values of the variable predict the group of every row exactly (also
\* when one group only is present)
PerfectlySeparated(matrix, var) ==
    \A s, t \in DOMAIN matrix :
        matrix[s][var] = matrix[t][var]
            => matrix[s][dependent_var_name] = matrix[t][dependent_var_name]

\* a continuous regressor with one value is collinear with the intercept
ConstantRegressor(matrix, var) ==
    ~IsCategorical(var) /\ Cardinality({matrix[s][var] : s \in DOMAIN matrix}) = 1

\* Logit(...).fit(disp=0) and results.llr_pvalue: LinAlgError (singular
\* matrix) or PerfectSeparationError, or the p-value of the likelihood-ratio
\* test, which is chi2.sf(llr, 0) = nan for a design with the intercept only
LogitFit(matrix, var) ==
    IF independent_var(matrix, var) = <<"intercept">> THEN {Return(NaNp)}
    ELSE IF ConstantRegressor(matrix, var) \/ PerfectlySeparated(matrix, var)
         THEN {Raise}
    ELSE {Raise} \cup {Return(p) : p \in PValues}

\* one pass of "for independent_varName in tqdm(independent_varNames)"
LLRStep ==
    /\ pc = "screen"
    /\ variant = "LLR"
    /\ LET var    == Ordered(independent_varNames)[idx]
           matrix == dropna(facts, var)
       IN  IF DOMAIN matrix = {}
           THEN /\ dic_pvalues' = Put(dic_pvalues, var, NaNp)
                /\ UNCHANGED <<tested, library, raised>>
           ELSE \E o \in Call(var, LogitFit(matrix, var)) :
                  /\ dic_pvalues' = Put(dic_pvalues, var, IF o.raises THEN NaNp ELSE o.p)
                  /\ tested' = Put(tested, var, [test |-> "Logit", rows |-> DOMAIN matrix])
                  /\ library' = Put(library, var, o)
                  /\ raised' = IF o.raises
                                THEN raised \cup {Exception("LinAlgError", "fit", "screen", var)}
                                ELSE raised
    /\ facts' = after_dropna(facts, Ordered(independent_varNames)[idx])
    /\ screened' = screened \cup {Ordered(independent_varNames)[idx]}
    /\ Advance(Len(independent_varNames), "correct")
    /\ UNCHANGED <<setup, report, variablesDict, categorical_varnames,
                   continuous_varnames, facts_dummies, dic_mannwhitneyu,
                   dic_fisher, adjusted_alpha, fetched>>

\* anova_model(dataset, dependent_varname, independent_varname) under
\* tryCatch: glm stops with an error on an empty data set and on a factor
\* with fewer than two levels; a constant regressor has no degree of freedom
\* and the p-value NA; glm warns when the fitted probabilities are 0 or 1
anova_model(dataset, var) ==
    IF DOMAIN dataset = {} THEN {Raise}
    ELSE IF IsCategorical(var) /\ Len(Levels(dataset, var)) < 2 THEN {Raise}
    ELSE IF ConstantRegressor(dataset, var) THEN {Return(NaNp)}
    ELSE IF PerfectlySeparated(dataset, var) THEN {Raise}
    ELSE {Raise} \cup {Return(p) : p \in PValues}

\* one pass of "for (independent_varname in independent_varnames)": the
\* handlers of tryCatch assign to variables local to the handler, so a failed
\* variable gets no element in pvalues_list
RStep ==
    /\ pc = "screen"
    /\ variant = "R"
    /\ LET var     == Ordered(independent_varNames)[idx]
           dataset == dropna(facts, var)
       IN  \E o \in Call(var, anova_model(dataset, var)) :
              /\ dic_pvalues' = IF o.raises THEN dic_pvalues
                                ELSE Put(dic_pvalues, var, o.p)
              /\ tested' = Put(tested, var, [test |-> "glm", rows |-> DOMAIN dataset])
              /\ library' = Put(library, var, o)
              /\ raised' = IF o.raises
                            THEN raised \cup {Exception("condition",
                                    IF DOMAIN dataset = {} THEN "empty_join"
                                    ELSE IF IsCategorical(var) /\ Len(Levels(dataset, var)) < 2
                                    THEN "degenerate" ELSE "fit", "screen", var)}
                            ELSE raised
    /\ facts' = after_dropna(facts, Ordered(independent_varNames)[idx])
    /\ screened' = screened \cup {Ordered(independent_varNames)[idx]}
    /\ Advance(Len(independent_varNames), "correct")
    /\ UNCHANGED <<setup, report, variablesDict, categorical_varnames,
                   continuous_varnames, facts_dummies, dic_mannwhitneyu,
                   dic_fisher, adjusted_alpha, fetched>>

----------------------------------------------------------------------------
(* Multiplicity Corrector *)

Mul(p, n) == IF isna(p) THEN NaNp ELSE <<p[1] * n, p[2]>>

\* {**dic_mannwhitneyu, **dic_fisher}
Merge(d1, d2) ==
    [k \in DOMAIN d1 \cup DOMAIN d2 |-> IF k \in DOMAIN d2 THEN d2[k] ELSE d1[k]]

\* the column the p-values are joined on
JoinKey(r) == IF variant \in {"MWF", "MWF101"} THEN r.dummies_varName ELSE r.varName

\* joining_variablesDict_onCol(variablesDict, df_pvalues, ...); R: left_join:
\* a row without a p-value of its key gets a missing one
joining_pvalues(dict, dic) ==
    [k \in 1..Len(dict) |->
        [dict[k] EXCEPT !.pvalues =
            IF JoinKey(dict[k]) \in DOMAIN dic THEN dic[JoinKey(dict[k])] ELSE NaNp]]

\* len(variablesDict["pvalues"]); R: length(variablesDict_enhanced$pvalues)
bonferroni_N(dict) == Len(dict)

\* p.adjust(p, method="bonferroni"): pmin(1, p * n), n the number of non-NA
p_adjust(p, dict) ==
    LET n == Cardinality({k \in 1..Len(dict) : ~isna(dict[k].pvalues)})
        q == Mul(p, n)
    IN  IF isna(q) THEN NaNp ELSE IF Lt(<<1, 1>>, q) THEN <<1, 1>> ELSE q

\* a faulty adjustment: p.adjust in the Python notebooks too
p_adj_capped(p, dict) == p_adjust(p, dict)

\* variablesDict["p_adj"]; R: variablesDict_enhanced$adj_pvalues
p_adj(p, dict) ==
    IF variant = "R" THEN p_adjust(p, dict) ELSE Div(p, bonferroni_N(dict))

\* variablesDict.sort_index(): the rows in the order of their index, rows of
\* one index in the order they had
sort_index(dict) ==
    Flatten([r \in 1..Len(Paths) |-> SelectSeq(dict, LAMBDA row : row.index = Paths[r])])

\* variablesDict["group"] = variablesDict.reset_index(level=2)["level_2"].values
\* (level 1 in the 101 notebook; R: the column level_3 as category)
with_group(dict) == [k \in 1..Len(dict) |-> [dict[k] EXCEPT !.group = dict[k].index[2]]]

\* variablesDict with the columns p_adj, log_p and group, sorted by its index
\* in the Python notebooks
corrected(joined) ==
    LET derived == [k \in 1..Len(joined) |->
            [joined[k] EXCEPT !.p_adj = p_adj(joined[k].pvalues, joined),
                              !.log_p = neglog10(joined[k].pvalues)]]
    IN  with_group(IF variant = "R" THEN derived ELSE sort_index(derived))

\* cell "Merging pvalues from different tests ... adjusted_alpha ... log_p
\* ... sort_index ... group"
Corrector ==
    /\ pc = "correct"
    /\ LET merged == IF variant \in {"MWF", "MWF101"}
                     THEN Merge(dic_mannwhitneyu, dic_fisher) ELSE dic_pvalues
           joined == joining_pvalues(variablesDict, merged)
       IN  /\ dic_pvalues' = merged
           /\ adjusted_alpha' = Div(alpha, bonferroni_N(joined))
           /\ variablesDict' = corrected(joined)
    /\ pc' = "report"
    /\ UNCHANGED <<setup, library, raised, report, facts, categorical_varnames, continuous_varnames,
                   facts_dummies, idx, dic_mannwhitneyu, dic_fisher, tested, fetched, screened>>

----------------------------------------------------------------------------
(* Reporter: Manhattan plot *)

\* -log10 of the p-values and thresholds of the R notebook, in units of 1e-7
\* (1.7781513 is written 17781513)
Log10Table ==
    << <<<<1, 1>>, 0>>, <<<<1, 25>>, 13979400>>, <<<<2000, 120001>>, 17781549>>,
       <<<<1, 60>>, 17781513>>, <<<<1, 80>>, 19030900>>, <<<<1, 1000>>, 30000000>> >>

neglog10_e7(p) ==
    Log10Table[CHOOSE k \in 1..Len(Log10Table) : Eq(Log10Table[k][1], p)][2]

\* round(v, 5) of a finite -log10 value: the nearest multiple of 1e-5
round5(v) ==
    IF v.kind # "fin" THEN v
    ELSE [kind |-> "round5", of |-> v.of, e5 |-> (neglog10_e7(v.of) + 50) \div 100]

\* y > line, for a drawn point and the reference line
Above(y, line) ==
    IF y.kind = "round5" THEN y.e5 * 100 > neglog10_e7(line.of)
    ELSE y.kind = "fin" /\ line.kind = "fin" /\ Lt(y.of, line.of)

\* a fault: the infinite values are left in the frame
keep_inf(r) == r

\* .replace([np.inf, -np.inf], np.nan)
replace_inf(r) ==
    IF r.log_p.kind = "inf" THEN [r EXCEPT !.log_p = neglog10(NaNp)] ELSE r

\* the rows of variablesDict, each with its row number
Numbered(dict) == [k \in 1..Len(dict) |-> [row |-> k, rec |-> dict[k]]]

\* a fault: the selection is a view: the replacement of the infinite values
\* reaches the frame it was taken from
loc_view(dict) ==
    [df |-> SelectSeq(Numbered(dict), LAMBDA n : ~isna(n.rec.pvalues)),
     source |-> [k \in 1..Len(dict) |->
                    IF dict[k].log_p.kind = "inf"
                    THEN [dict[k] EXCEPT !.log_p = [kind |-> "nan", of |-> NaNp]]
                    ELSE dict[k]]]

\* variablesDict.loc[~mask, :].copy(), mask = variablesDict["pvalues"].isna():
\* a new frame; the frame it is taken from stays as it was whatever is
\* written to the copy
loc_copy(dict) ==
    [df |-> SelectSeq(Numbered(dict), LAMBDA n : ~isna(n.rec.pvalues)),
     source |-> dict]

\* a > b, for two values of log_p (R: of log_pvalues); NaN compares False
Greater(a, b) ==
    IF a.kind = "round5" THEN b.kind = "round5" /\ a.e5 > b.e5
    ELSE a.kind = "fin" /\ b.kind = "fin" /\ Lt(a.of, b.of)

\* group_order: the rank of a group on the x axis of PheWAS_py.ipynb and
\* part_000 (the ranks are not in the order of the names)
group_order == [g1 |-> 1, g2 |-> 0]

\* df_results["group_order"] = df_results["group"].replace(group_order);
\* df_results.sort_values("group_order", ascending=True)
sort_values_group_order(df) ==
    Flatten([o \in 1..2 |-> SelectSeq(df, LAMBDA n : group_order[n.rec.group] = o - 1)])

\* length of the slice [0:6] of the sorted log_p in the Python notebooks,
\* scaled to the result tables of the model
TopK == 2

\* the rows of a frame whose log_p is not NaN
NotNaN(df) == {k \in 1..Len(df) : df[k].rec.log_p.kind # "nan"}

\* df_results["log_p"].sort_values(ascending=False)[0:6][-1] of a frame with
\* a row at least: the last of the first six values in decreasing order, NaN
\* sorted last; the smallest value when there are fewer than six
threshold_top_values(df) ==
    LET m == IF TopK < Len(df) THEN TopK ELSE Len(df)
        y(k) == df[k].rec.log_p
    IN  IF m > Cardinality(NotNaN(df)) THEN neglog10(NaNp)
        ELSE y(CHOOSE k \in NotNaN(df) :
                 /\ Cardinality({j \in NotNaN(df) : Greater(y(j), y(k))}) < m
                 /\ Cardinality({j \in NotNaN(df) : ~Greater(y(k), y(j))}) >= m)

\* a fault: a row as high as the threshold gets a text too
python_labelled_inclusive(df) ==
    {df[k].row : k \in {j \in NotNaN(df) :
                           ~Greater(threshold_top_values(df), df[j].rec.log_p)}}

\* the rows that get a text: row["log_p"] > threshold_top_values
python_labelled(df) ==
    {df[k].row : k \in {j \in 1..Len(df) :
                           Greater(df[j].rec.log_p, threshold_top_values(df))}}

\* length of the slice [1:4] of order(...) in the R notebook, scaled to the
\* two variables of the model
RTopK == 2

\* order(plot_df[["log_pvalues"]], decreasing=T)[1:4]: the rows of the four
\* largest values, equal values in the order of the rows; to_annotate "yes"
r_labelled(df) ==
    {df[k].row : k \in {j \in 1..Len(df) :
        Cardinality({i \in 1..Len(df) :
            \/ Greater(df[i].rec.log_p, df[j].rec.log_p)
            \/ (i < j /\ ~Greater(df[j].rec.log_p, df[i].rec.log_p))}) < RTopK}}

\* a fault: the rows whose log_p is NaN are kept in every notebook
python_df_results_keepnan(dict) ==
    LET c == loc_copy(dict)
    IN  [c EXCEPT !.df = [k \in 1..Len(c.df) |-> [c.df[k] EXCEPT !.rec = replace_inf(@)]]]

\* df_results of the Python notebooks: the rows with a p-value, infinite
\* values replaced by NaN; PheWAS_py.ipynb and part_000 then drop the rows
\* whose log_p is NaN
python_df_results(dict) ==
    LET c   == loc_copy(dict)
        rep == [k \in 1..Len(c.df) |-> [c.df[k] EXCEPT !.rec = replace_inf(@)]]
    IN  [c EXCEPT !.df =
            IF variant = "MWF101" THEN rep
            ELSE sort_values_group_order(
                     SelectSeq(rep, LAMBDA n : n.rec.log_p.kind # "nan"))]

\* plot_df of the R notebook: the rows with a p-value, log_pvalues rounded
\* to 5 decimals, the rows with an infinite one removed
r_plot_df(dict) ==
    LET c     == loc_copy(dict)
        round == [k \in 1..Len(c.df) |-> [c.df[k] EXCEPT !.rec.log_p = round5(@)]]
    IN  [c EXCEPT !.df = SelectSeq(round, LAMBDA n : n.rec.log_p.kind # "inf")]

\* a fault: the adjusted p-values are drawn
Points_adjusted(df) ==
    {[row |-> df[k].row, y |-> neglog10(df[k].rec.p_adj),
      ind |-> IF variant = "R" THEN 0 ELSE k, group |-> df[k].rec.group] :
        k \in NotNaN(df)}

\* the points of the scatter plot, x='ind', y='log_p', with
\* df_results["ind"] = np.arange(1, len(df_results)+1) (R: x=category,
\* y=log_pvalues, no position of its own: 0): a row whose y is NaN is not
\* drawn
Points(df) ==
    {[row |-> df[k].row, y |-> df[k].rec.log_p,
      ind |-> IF variant = "R" THEN 0 ELSE k, group |-> df[k].rec.group] :
        k \in NotNaN(df)}

\* the cells of the Manhattan plot
Reporter ==
    /\ pc = "report"
    /\ LET c == IF variant = "R" THEN r_plot_df(variablesDict)
                ELSE python_df_results(variablesDict)
           fails == IF variant = "R"
                    THEN \* plot_df[order(...)[1:4], "to_annotate"] <- "yes": NA index
                         Len(c.df) < RTopK
                    ELSE \* sort_values(...)[0:6][-1] of an empty Series
                         Len(c.df) = 0
       IN  /\ df_results' = c.df
           /\ variablesDict' = c.source
           /\ IF fails
              THEN /\ pc' = "aborted"
                   /\ plot' = plot
                   /\ raised' = raised \cup
                         {Exception(IF variant = "R" THEN "error" ELSE "IndexError",
                                    "other", "report", NaN)}
              ELSE /\ pc' = "done"
                   /\ plot' = [drawn |-> TRUE, points |-> Points(c.df),
                               labelled |-> IF variant = "R" THEN r_labelled(c.df)
                                            ELSE python_labelled(c.df),
                               hline |-> neglog10(adjusted_alpha)]
                   /\ UNCHANGED raised
    /\ UNCHANGED <<setup, library, printed, facts, categorical_varnames,
                   continuous_varnames, facts_dummies, idx, dic_mannwhitneyu,
                   dic_fisher, dic_pvalues, tested, adjusted_alpha, fetched, screened>>

Next ==
    \/ SelectVariables
    \/ CohortFilter
    \/ MakeDummies
    \/ MannWhitneyStep
    \/ FisherStep
    \/ TqdmAttributeError
    \/ LLRStep
    \/ RStep
    \/ Corrector
    \/ Reporter

Spec == Init /\ [][Next]_vars

\* the Mann-Whitney / Fisher notebook (src/unnamed/part_000) alone
InitMWF == Init /\ variant = "MWF"

NextMWF ==
    \/ SelectVariables
    \/ CohortFilter
    \/ MakeDummies
    \/ MannWhitneyStep
    \/ FisherStep
    \/ Corrector
    \/ Reporter

SpecMWF == InitMWF /\ [][NextMWF]_vars

----------------------------------------------------------------------------
(* Vocabulary of the properties *)

\* the Variables to screen: the dictionary without the grouping trait
Variables == VarNames \ {dependent_var_name}

\* the screening cells have completed and the run was not stopped
ScreenerFinished == pc \in {"correct", "report", "done"}

\* the result records: the entries of the dictionaries the loops fill
Results == Merge(Merge(dic_mannwhitneyu, dic_fisher), dic_pvalues)

\* the Variable a key of the result dictionaries belongs to
VarOfKey(k) ==
    IF \E i \in 1..Len(variablesDict) : JoinKey(variablesDict[i]) = k
    THEN variablesDict[CHOOSE i \in 1..Len(variablesDict) :
                           JoinKey(variablesDict[i]) = k].varName
    ELSE k

RecordsOf(v) == {k \in DOMAIN Results : VarOfKey(k) = v}

\* the items the loops of the Screener iterate over
Iterated ==
    IF variant \in {"MWF", "MWF101"}
    THEN Range(continuous_varnames) \cup Range(dummy_categorical_varnames(variablesDict))
    ELSE Range(independent_varNames)

\* the retained subjects of the frame the query returned
Cohort == {s \in DOMAIN fetched : fetched[s][dependent_var_name] \in KeptValues}

\* the subjects of the cohort with a value of the Variable of key k
Joined(k) == {s \in DOMAIN facts : facts[s][dependent_var_name] # NaN
                                     /\ facts[s][VarOfKey(k)] # NaN}

----------------------------------------------------------------------------
(* Running the screening cells a second time *)

\* the cells of the Screener are run again on the same frame, the lists in
\* the same or in the opposite order; the result dictionaries start empty
\* ("dic_mannwhitneyu = {}", "dic_fisher = {}", "dic_pvalues = {}",
\* "pvalues_list = list()")
Rerun ==
    /\ pc = "correct"
    /\ ~previous.ran
    /\ previous' = [ran |-> TRUE, results |-> Results]
    /\ order' \in {"listed", "reversed"}
    /\ dic_mannwhitneyu' = EmptyDic
    /\ dic_fisher' = EmptyDic
    /\ dic_pvalues' = EmptyDic
    /\ screened' = {}
    /\ idx' = 1
    /\ pc' = IF variant \in {"MWF", "MWF101"}
             THEN (IF Len(continuous_varnames) > 0 THEN "mw" ELSE "fisher")
             ELSE "screen"
    /\ UNCHANGED <<variant, dependent_var_name, library, raised, report, facts,
                   variablesDict, categorical_varnames, continuous_varnames,
                   facts_dummies, tested, adjusted_alpha, fetched>>

\* runs in which tqdm raises nothing
NextRerun ==
    \/ SelectVariables
    \/ CohortFilter
    \/ MakeDummies
    \/ MannWhitneyStep
    \/ FisherStep
    \/ LLRStep
    \/ RStep
    \/ Rerun
    \/ Corrector
    \/ Reporter

SpecRerun == Init /\ [][NextRerun]_vars

\* the notebooks with any variable of the dictionary as dependent variable
InitAnyTrait == InitWith(VarNames)

SpecAnyTrait == InitAnyTrait /\ [][Next]_vars

----------------------------------------------------------------------------
(* The Reporter on any result table *)

\* number of rows of the result tables the Reporter is run on
NReport == 3

\* the p-values of the rows of these tables
ReportPValues == {NaNp, <<0, 1>>, <<1, 1000>>, <<1, 25>>, <<1, 1>>}

\* the names of their variables
ReportNames == <<"v1", "v2", "v3", "v4", "v5">>

\* variablesDict as the join of the Corrector leaves it, before the derived
\* columns are added: row k has the index ix[k] and the p-value ps[k]
JoinedTable(ix, ps) ==
    [k \in 1..NReport |->
        [varName |-> ReportNames[k], categorical |-> FALSE, index |-> ix[k],
         group |-> NaN, dummies_varName |-> ReportNames[k], pvalues |-> ps[k],
         p_adj |-> NaNp, log_p |-> neglog10(NaNp)]]

\* the state after the cell of the Corrector, for any index and any p-values
\* of the rows of the dictionary
InitReport ==
    /\ variant \in Variants
    /\ pc = "report"
    /\ \E ix \in [1..NReport -> Range(Paths)], ps \in [1..NReport -> ReportPValues] :
          variablesDict = corrected(JoinedTable(ix, ps))
    /\ adjusted_alpha = Div(alpha, NReport)
    /\ facts = <<>>
    /\ fetched = <<>>
    /\ categorical_varnames = <<>>
    /\ continuous_varnames = <<>>
    /\ facts_dummies = [columns |-> {}, data |-> <<>>]
    /\ idx = 1
    /\ dic_mannwhitneyu = EmptyDic
    /\ dic_fisher = EmptyDic
    /\ dic_pvalues = EmptyDic
    /\ tested = <<>>
    /\ screened = {}
    /\ dependent_var_name = StatusVar
    /\ order = "listed"
    /\ previous = [ran |-> FALSE, results |-> EmptyDic]
    /\ library = <<>>
    /\ raised = {}
    /\ df_results = <<>>
    /\ plot = NoPlot
    /\ printed = <<>>

NextReport == Reporter

SpecReport == InitReport /\ [][NextReport]_vars

----------------------------------------------------------------------------
(* C1 *)

\* C1: when the Screener has finished, every Variable other than the grouping
\* trait has exactly one result record and every record belongs to such a
\* Variable.
C1_OneRecordPerVariable ==
    ScreenerFinished =>
        /\ \A v \in Variables : Cardinality(RecordsOf(v)) = 1
        /\ \A k \in DOMAIN Results : VarOfKey(k) \in Variables

\* the same, for the logistic-regression notebook alone
C1_LLROnly == variant = "LLR" => C1_OneRecordPerVariable

----------------------------------------------------------------------------
(* C2 *)

\* C2: a failure while one variable is handled never stops the Screener: the
\* run is not aborted, every variable of the iterated lists is screened, and a
\* recorded result is kept.
C2_FailureIsolation ==
    \A e \in raised :
        e.cell \in {"mw", "fisher", "screen"} =>
            /\ pc # "aborted"
            /\ ScreenerFinished => Iterated \subseteq screened

----------------------------------------------------------------------------
(* C3 *)

\* number of rows of the joined dictionary with a defined p-value
ValidCount == Cardinality({i \in 1..Len(variablesDict) : ~isna(variablesDict[i].pvalues)})

\* C3: the threshold of the Corrector is 0.05 / N with N the number of
\* variables whose p-value is defined.
C3_ThresholdCountsValid ==
    (pc = "report" /\ ValidCount > 0) =>
        Eq(adjusted_alpha, Div(alpha, ValidCount))

----------------------------------------------------------------------------
(* C4 *)

\* q = p / n, for defined p and q
IsQuotient(q, p, n) == q[1] * p[2] * n = p[1] * q[2]

\* q = min(p * n, 1), for defined p and q
IsCappedProduct(q, p, n) ==
    IF p[1] * n > p[2] THEN q[1] = q[2] ELSE q[1] * p[2] = p[1] * n * q[2]

\* C4: in every variant the adjusted p-value of a defined p is p / N, N the
\* divisor of the threshold, and it is undefined exactly when p is.
C4_PlainDivisionEverywhere ==
    pc = "report" =>
        \A i \in 1..Len(variablesDict) :
            LET r == variablesDict[i]
            IN  /\ isna(r.p_adj) <=> isna(r.pvalues)
                /\ ~isna(r.pvalues) =>
                      /\ IsQuotient(r.p_adj, r.pvalues, Len(variablesDict))
                      /\ IsQuotient(adjusted_alpha, alpha, Len(variablesDict))

\* C4 (amended): in the Python notebooks the adjusted p-value of a defined p
\* is p / N, N = len(variablesDict["pvalues"]) being the divisor of the
\* threshold; the R notebook computes min(p * n, 1), n the number of defined
\* p-values; in every variant it is undefined exactly when p is.
C4_DivisionInPythonCappedProductInR ==
    pc = "report" =>
        \A i \in 1..Len(variablesDict) :
            LET r == variablesDict[i]
            IN  /\ isna(r.p_adj) <=> isna(r.pvalues)
                /\ ~isna(r.pvalues) =>
                      /\ IsQuotient(adjusted_alpha, alpha, Len(variablesDict))
                      /\ IF variant = "R"
                         THEN IsCappedProduct(r.p_adj, r.pvalues, ValidCount)
                         ELSE IsQuotient(r.p_adj, r.pvalues, Len(variablesDict))

\* a Python run that reached the report with a defined positive p-value and
\* an undefined one
C4_Witness ==
    /\ pc = "report"
    /\ variant = "MWF"
    /\ \E i, j \in 1..Len(variablesDict) :
          /\ ~isna(variablesDict[i].pvalues)
          /\ variablesDict[i].pvalues[1] > 0
          /\ variablesDict[j].varName # dependent_var_name
          /\ isna(variablesDict[j].pvalues)

----------------------------------------------------------------------------
(* C5 *)

\* no two-sample test of the Variable of key k is possible: one of the two
\* groups has no subject with a value of it
NoValidTest(k) ==
    \E g \in KeptValues : \A s \in Joined(k) : facts[s][dependent_var_name] # g

\* C5: a result record of a variable without a valid test holds the missing
\* value, never a number, and the missing value stays missing in the adjusted
\* p-value and in -log10(p).
C5_MissingStaysMissing ==
    /\ \A k \in DOMAIN Results : NoValidTest(k) => isna(Results[k])
    /\ pc = "report" =>
          \A i \in 1..Len(variablesDict) :
              isna(variablesDict[i].pvalues) =>
                  /\ isna(variablesDict[i].p_adj)
                  /\ variablesDict[i].log_p.kind = "nan"

----------------------------------------------------------------------------
(* C6 *)

\* C6: a continuous variable is tested with the Mann-Whitney U test and a
\* categorical one with the Fisher exact test or the logistic regression.
C6_TestByType ==
    \A k \in DOMAIN tested :
        IF IsCategorical(VarOfKey(k))
        THEN tested[k].test \in {"fisher_exact", "Logit", "glm"}
        ELSE tested[k].test = "mannwhitneyu"

----------------------------------------------------------------------------
(* C7 *)

\* C7: after the Cohort Filter the frame holds exactly the subjects whose
\* grouping trait is "Case" or "Control", with their cells unchanged, and
\* every test reads such subjects only, each in exactly one group.
C7_CohortIsCaseControl ==
    pc \notin {"select", "filter"} =>
        /\ DOMAIN facts = Cohort
        /\ \A s \in DOMAIN facts : facts[s] = fetched[s]
        /\ \A k \in DOMAIN tested :
              /\ tested[k].rows \subseteq Cohort
              /\ \A s \in tested[k].rows :
                    Cardinality({g \in KeptValues : fetched[s][dependent_var_name] = g}) = 1

\* a finished run whose query returned a subject of each kind (Case, Control,
\* another value or a missing one) and where a test read a subject
C7_Witness ==
    /\ pc = "report"
    /\ \E s \in DOMAIN fetched : fetched[s][dependent_var_name] \notin KeptValues
    /\ \E s, t \in DOMAIN facts :
          facts[s][dependent_var_name] # facts[t][dependent_var_name]
    /\ \E k \in DOMAIN tested : tested[k].rows # {}

----------------------------------------------------------------------------
(* C8 *)

\* C8: the grouping trait is never an item of the Screener's loops: it is not
\* screened, not tested and has no result record, and its row of the joined
\* dictionary has no defined p-value.
C8_TraitNeverTested ==
    /\ dependent_var_name \notin Iterated
    /\ \A k \in screened \cup DOMAIN tested \cup DOMAIN Results :
          k # dependent_var_name /\ VarOfKey(k) # dependent_var_name
    /\ \A i \in 1..Len(variablesDict) :
          variablesDict[i].varName = dependent_var_name
              => isna(variablesDict[i].pvalues)

\* a finished run in which every other variable got a defined p-value
C8_Witness ==
    /\ pc = "report"
    /\ \A i \in 1..Len(variablesDict) :
          variablesDict[i].varName # dependent_var_name
              => ~isna(variablesDict[i].pvalues)

----------------------------------------------------------------------------
(* C9 *)

\* C9: the test of a variable reads exactly the subjects that have a value of
\* the grouping trait and a value of the variable.
C9_TestReadsJoinedRows ==
    \A k \in DOMAIN tested : tested[k].rows = Joined(k)

----------------------------------------------------------------------------
(* C10 *)

\* C10: a screened variable without any subject having both values gets the
\* result 'undefined' and no statistical test is invoked for it.
C10_EmptyJoinUntested ==
    \A k \in screened \ {NaN} :
        Joined(k) = {} =>
            /\ k \notin DOMAIN tested
            /\ k \in DOMAIN Results
            /\ isna(Results[k])

----------------------------------------------------------------------------
(* C11 *)

\* the categorical Variable v has one observed value among the retained
\* subjects
Degenerate(v) ==
    /\ IsCategorical(v)
    /\ Cardinality({facts[s][v] : s \in {t \in DOMAIN facts : facts[t][v] # NaN}}) = 1

\* C11: when the Screener has finished, a categorical variable with a single
\* observed value among the retained subjects has a result record, and the
\* record is 'undefined'; the run was not stopped by it.
C11_DegenerateIsUndefined ==
    /\ ScreenerFinished =>
          \A v \in Variables :
              Degenerate(v) =>
                  /\ RecordsOf(v) # {}
                  /\ \A k \in RecordsOf(v) : isna(Results[k])
    /\ \A e \in raised : e.kind = "degenerate" => pc # "aborted"

----------------------------------------------------------------------------
(* C12 *)

\* C12: an error that is not an empty join, a degenerate table or a failed
\* fit is never swallowed: once it is raised the run is stopped, so the
\* Corrector and the Reporter do not run on the partial results.
C12_OtherErrorsAbort ==
    \A e \in raised : e.kind = "other" => pc = "aborted"

----------------------------------------------------------------------------
(* C13 *)

\* the row of the result table has a point in the plot
Plotted(i) == \E pt \in plot.points : pt.row = i

----------------------------------------------------------------------------
(* C14 *)

\* the height y of a drawn point is the value v
SameHeight(y, v) ==
    IF y.kind = "round5"
    THEN v.kind = "fin" /\ y.e5 * 100 = neglog10_e7(v.of)
    ELSE y = v

----------------------------------------------------------------------------
(* C15 *)

\* C15: the Screener is insensitive to the order of the variable list: run
\* again on the same frame with the list in any order, it ends with the same
\* map from variables to results.
C15_OrderInsensitive ==
    (previous.ran /\ ScreenerFinished) => Results = previous.results

----------------------------------------------------------------------------
(* C16 *)

----------------------------------------------------------------------------
(* C17 *)

----------------------------------------------------------------------------
(* C18 *)

----------------------------------------------------------------------------
(* C19 *)

\* C19: a raw p-value is never changed once the Screener has written it; the
\* Corrector copies it beside the fields it derives; the Reporter leaves the
\* result table as it was.
C19_RawPValueImmutable ==
    [][/\ \A k \in DOMAIN Results :
             k \in DOMAIN Results' /\ Results'[k] = Results[k]
       /\ (pc' = "report") =>
             \A i \in 1..Len(variablesDict') :
                 LET r == variablesDict'[i]
                 IN  IF JoinKey(r) \in DOMAIN Results
                     THEN r.pvalues = Results[JoinKey(r)]
                     ELSE isna(r.pvalues)
       /\ (pc = "report") => (variablesDict' = variablesDict)]_vars

\* a report was drawn from a table holding a p-value of 0, whose infinite
\* -log10 the Reporter replaces in its own frame
C19_Witness ==
    /\ pc = "done"
    /\ \E i \in 1..Len(variablesDict) : variablesDict[i].log_p.kind = "inf"
    /\ \E i \in 1..Len(variablesDict) : variablesDict[i].log_p.kind = "fin"

----------------------------------------------------------------------------
(* C20 *)

\* C20: with another variable of the dictionary as dependent variable and no
\* other change, selecting the variables and filtering the cohort do not
\* fail, and the cohort holds every subject with a value of that variable.
C20_AnyGroupingTrait ==
    dependent_var_name # StatusVar =>
        /\ \A e \in raised : e.cell \notin {"select", "filter"}
        /\ pc \notin {"select", "filter"} =>
              \A s \in DOMAIN fetched :
                  fetched[s][dependent_var_name] # NaN => s \in DOMAIN facts

----------------------------------------------------------------------------
(* C21 *)

\* the points of the plot that have a text
Labelled == {pt \in plot.points : pt.row \in plot.labelled}

\* C21: in a plot of a Python notebook only points have a text; a point has
\* one if and only if fewer than TopK points (six in the notebooks) are as
\* high as it or higher, that is, it is strictly above the TopK-th largest
\* height; no point without a text is above a point with one; at most
\* TopK - 1 points have a text; with fewer than TopK points the lowest one
\* has none.
C21_TopLabels ==
    (pc = "done" /\ variant # "R") =>
        /\ plot.labelled \subseteq {pt.row : pt \in plot.points}
        /\ Cardinality(plot.points) >= TopK =>
              \A pt \in plot.points :
                  pt \in Labelled <=>
                      Cardinality({q \in plot.points : ~Greater(pt.y, q.y)}) < TopK
        /\ \A a \in Labelled : \A b \in plot.points \ Labelled : ~Greater(b.y, a.y)
        /\ Cardinality(Labelled) <= TopK - 1
        /\ Cardinality(plot.points) < TopK =>
              \A pt \in plot.points :
                  (\A q \in plot.points : ~Greater(pt.y, q.y)) => pt \notin Labelled

\* a plot of a Python notebook with more than TopK points, one with a text,
\* and two points of the same height without one
C21_Witness ==
    /\ pc = "done"
    /\ variant # "R"
    /\ Cardinality(plot.points) > TopK
    /\ Labelled # {}
    /\ \E a, b \in plot.points \ Labelled : a # b /\ a.y = b.y

----------------------------------------------------------------------------
(* C22 *)

\* C22: in a plot of a Python notebook the points have the distinct positions
\* 1..n, n the number of points, and the points of one group are next to one
\* another: no point of another group lies between two of them.
C22_PositionsGroupedByCategory ==
    (pc = "done" /\ variant # "R") =>
        /\ {pt.ind : pt \in plot.points} = 1..Cardinality(plot.points)
        /\ \A a, b, c \in plot.points :
              (a.group = c.group /\ a.ind < b.ind /\ b.ind < c.ind)
                  => b.group = a.group

----------------------------------------------------------------------------
(* C23 *)

\* the cell of the Corrector has run
CorrectorRan ==
    \/ pc \in {"report", "done"}
    \/ pc = "aborted" /\ \E e \in raised : e.cell = "report"

\* C23: no variable is screened or tested before the Cohort Filter has run,
\* and the Corrector and the Reporter run only when the Screener has handled
\* every item of its lists.
C23_PipelineOrder ==
    /\ (screened # {} \/ DOMAIN tested # {}) => pc \notin {"select", "filter"}
    /\ CorrectorRan => Iterated \subseteq screened

----------------------------------------------------------------------------
(* C24 *)

\* the cohort lacks a subject of one of the two groups
OneGroupOrNone ==
    \E g \in KeptValues : \A s \in DOMAIN facts : facts[s][dependent_var_name] # g

----------------------------------------------------------------------------
(* C25 *)

\* C25: once the dependent variable has been removed, the two lists have no
\* name in common, hold no name twice, hold the categorical and the
\* continuous variables respectively, and together hold exactly the
\* variables of the dictionary other than the dependent one.
C25_ListsPartitionVariables ==
    (pc # "select" /\ \A e \in raised : e.cell # "select") =>
        /\ Range(categorical_varnames) \cap Range(continuous_varnames) = {}
        /\ Range(categorical_varnames) \cup Range(continuous_varnames) = Variables
        /\ Cardinality(Range(categorical_varnames)) = Len(categorical_varnames)
        /\ Cardinality(Range(continuous_varnames)) = Len(continuous_varnames)
        /\ \A v \in Range(categorical_varnames) : IsCategorical(v)
        /\ \A v \in Range(continuous_varnames) : ~IsCategorical(v)

\* the lists have been built and a variable of each list has been tested
C25_Witness ==
    /\ ScreenerFinished
    /\ \E v \in Range(categorical_varnames) : \E k \in DOMAIN tested : VarOfKey(k) = v
    /\ \E v \in Range(continuous_varnames) : v \in DOMAIN tested

----------------------------------------------------------------------------
(* C26 *)

\* the rows of the result table with a defined p-value other than 0
Plottable ==
    {i \in 1..Len(variablesDict) :
        ~isna(variablesDict[i].pvalues) /\ variablesDict[i].pvalues[1] > 0}

\* the cells of the Reporter have run, to their end or to an exception
ReporterRan == pc = "done" \/ (pc = "aborted" /\ \E e \in raised : e.cell = "report")

\* C26: in PheWAS_py.ipynb and part_000, when no row of the result table has
\* a defined p-value other than 0 the frame of the plot is empty, the
\* threshold of the labels raises and no plot is drawn; otherwise the frame
\* is not empty, the threshold is a number and the plot is drawn.
C26_ReporterNeedsPlottable ==
    (variant \in {"LLR", "MWF"} /\ ReporterRan) =>
        IF Plottable = {}
        THEN /\ pc = "aborted"
             /\ df_results = <<>>
             /\ ~plot.drawn
        ELSE /\ pc = "done"
             /\ df_results # <<>>
             /\ plot.drawn
             /\ threshold_top_values(df_results).kind = "fin"

\* the Reporter of such a notebook stopped on a table whose defined p-values
\* are all 0
C26_Witness ==
    /\ variant \in {"LLR", "MWF"}
    /\ pc = "aborted"
    /\ \E e \in raised : e.cell = "report"
    /\ \E i \in 1..Len(variablesDict) :
          ~isna(variablesDict[i].pvalues) /\ variablesDict[i].pvalues[1] = 0

----------------------------------------------------------------------------
(* C27 *)

\* number of subjects of group g in the cohort
GroupSize(g) == Cardinality({s \in DOMAIN facts : facts[s][dependent_var_name] = g})

\* C27: the cell of the Cohort Filter prints the sizes of the groups without
\* failing, the number of Control subjects after "Control:" and the number
\* of Case subjects after "Case:", whichever group is the larger and also
\* when a group is empty.
C27_GroupSizesLabelled ==
    /\ \A e \in raised : e.cell # "filter"
    /\ (pc \notin {"select", "filter"} /\ printed # <<>>) =>
          printed = << <<GroupSize("Control")>>, <<GroupSize("Case")>> >>

----------------------------------------------------------------------------
(* C28 *)

\* the observed levels of the variable in the sub-table
ObservedLevels(matrix, var) == {matrix[s][var] : s \in DOMAIN matrix}

\* C28: in the regression notebook the design matrix of the variable at hand
\* never holds the column of the dependent variable and always holds the
\* intercept; for a categorical variable with k observed levels it holds
\* k - 1 indicator columns, those of all levels but the last, so with one
\* level it holds the intercept alone; for a continuous variable it holds
\* the column itself.
C28_DesignMatrix ==
    (variant = "LLR" /\ pc = "screen") =>
        LET var    == Ordered(independent_varNames)[idx]
            matrix == dropna(facts, var)
            X      == independent_var(matrix, var)
            levels == SortedValues(ObservedLevels(matrix, var))
        IN  DOMAIN matrix # {} =>
                /\ dependent_var_name \notin Range(X)
                /\ X[Len(X)] = "intercept"
                /\ Cardinality(Range(X)) = Len(X)
                /\ IF IsCategorical(var)
                   THEN /\ Len(X) = Len(levels)
                        /\ \A k \in 1..(Len(levels) - 1) : X[k] = DummyName(var, levels[k])
                        /\ Len(levels) = 1 => X = <<"intercept">>
                   ELSE X = <<var, "intercept">>

\* the loop of the regression notebook is at a categorical variable with one
\* observed level among the rows of its sub-table
C28_Witness ==
    /\ variant = "LLR"
    /\ pc = "screen"
    /\ LET var == Ordered(independent_varNames)[idx]
       IN  /\ IsCategorical(var)
           /\ Cardinality(ObservedLevels(dropna(facts, var), var)) = 1

====
